---- MODULE Spec2Model ----
(***************************************************************************)
(* Model of pykuda's ServiceTypeUtils (src/src/pykuda/service_type_utils.py) *)
(* : twelve request methods that generate headers, POST a request to the   *)
(* KUDA endpoint and normalise the JSON reply into a PyKudaResponse.       *)
(*                                                                         *)
(* Python values are tagged tuples:                                        *)
(*   <<"None">>  <<"bool", b>>  <<"int", n>>  <<"str", s>>                 *)
(*   <<"list", seq>>  <<"dict", f>>  <<"Response", r>>                     *)
(* where f is a function from the keys present to values and r is a        *)
(* requests Response [status_code, body]; body is <<"json", v>> when the   *)
(* text parses as JSON to v, and <<"text">> when it does not.              *)
(***************************************************************************)
EXTENDS Integers, Sequences, FiniteSets, TLC

VARIABLES pc, endpoint, data, caller_data, headers, header_calls,
          response, posted, outcome

vars == <<pc, endpoint, data, caller_data, headers, header_calls,
          response, posted, outcome>>

(* ------------------------------ bounds -------------------------------- *)

\* Balance amounts range over 0..MaxBalance.
MaxBalance == 1

(* --------------------------- Python values ---------------------------- *)

PyNone == <<"None">>
PyBool(b) == <<"bool", b>>
PyInt(n) == <<"int", n>>
PyStr(s) == <<"str", s>>
PyList(s) == <<"list", s>>
PyDict(f) == <<"dict", f>>
ResponseObj(r) == <<"Response", r>>

EmptyDict == PyDict(<<>>)

\* isinstance(v, dict)
IsDict(v) == v[1] = "dict"

\* The test of the headers left out: nothing counts as a Response
isinstance_never(v) == FALSE

\* isinstance(headers, requests.models.Response)
isinstance_Response(v) == v[1] = "Response"

\* bool(v): Python truthiness of the values a JSON body can hold
Truthy(v) ==
    CASE v[1] = "None" -> FALSE
      [] v[1] = "bool" -> v[2]
      [] v[1] = "int"  -> v[2] # 0
      [] v[1] = "str"  -> v[2] # ""
      [] v[1] = "list" -> Len(v[2]) > 0
      [] v[1] = "dict" -> DOMAIN v[2] # {}
      [] OTHER -> TRUE

\* d.get(k) on a dict d: the value, or None when the key is absent
get(d, k) == IF k \in DOMAIN d[2] THEN d[2][k] ELSE PyNone

\* The exception v[k] raises for a string key k, "" when it raises none
SubscriptError(v, k) ==
    IF v[1] # "dict" THEN "TypeError"
    ELSE IF k \notin DOMAIN v[2] THEN "KeyError"
    ELSE ""

\* v[k], defined when SubscriptError(v, k) = ""
Item(v, k) == v[2][k]

\* The exception v[k1][k2] raises, "" when it raises none
Subscript2Error(v, k1, k2) ==
    IF SubscriptError(v, k1) # "" THEN SubscriptError(v, k1)
    ELSE SubscriptError(Item(v, k1), k2)

\* response.json(): the parsed body; raises when the body is not JSON
JsonParses(resp) == resp.body[1] = "json"
json(resp) == resp.body[2]

(* --------------------------- PyKudaResponse --------------------------- *)

\* The value of PyKudaResponse's `error` field when a call site omits it.
PyKudaResponseDefaultError == FALSE

PyKudaResponse(status_code, d, error) ==
    [status_code |-> status_code, data |-> d, error |-> error]

\* What a method call ends with
Returned(result) == <<"returned", result>>
Raised(exc) == <<"raised", exc>>
NoOutcome == <<"none">>

(* --------------------------- request methods -------------------------- *)
(* Each method is a function of what generate_headers() returned (hdrs),   *)
(* what requests.post() returned (resp, read only when the headers are no  *)
(* Response) and the caller's request mapping (d).  A success test yields  *)
(* "True", "False", or the name of the exception its evaluation raises.    *)

bank_list_success(resp, response_data) ==
    IF resp.status_code # 200 THEN "False"
    ELSE IF ~Truthy(response_data) THEN "False"
    ELSE IF ~IsDict(response_data) THEN "AttributeError"
    ELSE IF ~Truthy(get(response_data, "status")) THEN "False"
    ELSE IF ~Truthy(get(response_data, "data")) THEN "False"
    ELSE IF ~IsDict(get(response_data, "data")) THEN "AttributeError"
    ELSE IF ~Truthy(get(get(response_data, "data"), "banks")) THEN "False"
    ELSE "True"

bank_list_request(hdrs, resp, d) ==
    IF isinstance_Response(hdrs)
    THEN Returned(PyKudaResponse(hdrs[2].status_code, hdrs,
                                 PyKudaResponseDefaultError))
    ELSE IF ~JsonParses(resp) THEN Raised("JSONDecodeError")
    ELSE LET response_data == json(resp)
             ok == bank_list_success(resp, response_data)
         IN  IF ok = "True"
             THEN Returned(PyKudaResponse(200,
                      Item(Item(response_data, "data"), "banks"),
                      PyKudaResponseDefaultError))
             ELSE IF ok = "False"
             THEN Returned(PyKudaResponse(resp.status_code, ResponseObj(resp), TRUE))
             ELSE Raised(ok)

create_virtual_account_success(resp, response_data) ==
    IF resp.status_code # 200 THEN "False"
    ELSE IF ~Truthy(response_data) THEN "False"
    ELSE IF ~IsDict(response_data) THEN "AttributeError"
    ELSE IF ~Truthy(get(response_data, "status")) THEN "False"
    ELSE IF ~Truthy(get(response_data, "data")) THEN "False"
    ELSE IF ~IsDict(get(response_data, "data")) THEN "AttributeError"
    ELSE IF ~Truthy(get(get(response_data, "data"), "accountNumber")) THEN "False"
    ELSE "True"

\* The success branch of create_virtual_account_request with the status
\* code left at the transport's 200
create_virtual_account_created_status_200(response_data, d) ==
    IF Subscript2Error(d, "Data", "trackingReference") # ""
    THEN Raised(Subscript2Error(d, "Data", "trackingReference"))
    ELSE Returned(PyKudaResponse(200,
             PyDict([account_number |->
                       Item(Item(response_data, "data"), "accountNumber"),
                     tracking_reference |->
                       Item(Item(d, "Data"), "trackingReference")]),
             PyKudaResponseDefaultError))

\* The success branch of create_virtual_account_request with the tracking
\* reference read from the reply instead of the request
create_virtual_account_created_echo_reply(response_data, d) ==
    IF Subscript2Error(response_data, "data", "trackingReference") # ""
    THEN Raised(Subscript2Error(response_data, "data", "trackingReference"))
    ELSE Returned(PyKudaResponse(201,
             PyDict([account_number |->
                       Item(Item(response_data, "data"), "accountNumber"),
                     tracking_reference |->
                       Item(Item(response_data, "data"), "trackingReference")]),
             PyKudaResponseDefaultError))

\* The success branch of create_virtual_account_request
create_virtual_account_created(response_data, d) ==
    IF Subscript2Error(d, "Data", "trackingReference") # ""
    THEN Raised(Subscript2Error(d, "Data", "trackingReference"))
    ELSE Returned(PyKudaResponse(201,
             PyDict([account_number |->
                       Item(Item(response_data, "data"), "accountNumber"),
                     tracking_reference |->
                       Item(Item(d, "Data"), "trackingReference")]),
             PyKudaResponseDefaultError))

create_virtual_account_request(hdrs, resp, d) ==
    IF isinstance_Response(hdrs)
    THEN Returned(PyKudaResponse(hdrs[2].status_code, hdrs,
                                 PyKudaResponseDefaultError))
    ELSE IF ~JsonParses(resp) THEN Raised("JSONDecodeError")
    ELSE LET response_data == json(resp)
             ok == create_virtual_account_success(resp, response_data)
         IN  IF ok = "True"
             THEN create_virtual_account_created(response_data, d)
             ELSE IF ok = "False"
             THEN Returned(PyKudaResponse(resp.status_code, ResponseObj(resp), TRUE))
             ELSE Raised(ok)

\* The balance payload both balance methods build: the first exception its
\* three subscripts raise, "" when they raise none
BalanceError(response_data) ==
    IF Subscript2Error(response_data, "data", "ledgerBalance") # ""
    THEN Subscript2Error(response_data, "data", "ledgerBalance")
    ELSE IF Subscript2Error(response_data, "data", "availableBalance") # ""
    THEN Subscript2Error(response_data, "data", "availableBalance")
    ELSE Subscript2Error(response_data, "data", "withdrawableBalance")

BalancePayload(response_data) ==
    PyDict([ledger |-> Item(Item(response_data, "data"), "ledgerBalance"),
            available |-> Item(Item(response_data, "data"), "availableBalance"),
            withdrawable |-> Item(Item(response_data, "data"), "withdrawableBalance")])

\* virtual_account_balance_success without the test of the HTTP status
virtual_account_balance_success_any_status(resp, response_data) ==
    IF ~IsDict(response_data) THEN "AttributeError"
    ELSE IF ~Truthy(get(response_data, "status")) THEN "False"
    ELSE "True"

\* virtual_account_balance_success with the ledger balance tested for
\* truth, as the other endpoints test their fields
virtual_account_balance_success_truthy_ledger(resp, response_data) ==
    IF resp.status_code # 200 THEN "False"
    ELSE IF ~IsDict(response_data) THEN "AttributeError"
    ELSE IF ~Truthy(get(response_data, "status")) THEN "False"
    ELSE IF ~Truthy(get(response_data, "data")) THEN "False"
    ELSE IF ~IsDict(get(response_data, "data")) THEN "AttributeError"
    ELSE IF ~Truthy(get(get(response_data, "data"), "ledgerBalance")) THEN "False"
    ELSE "True"

virtual_account_balance_success(resp, response_data) ==
    IF resp.status_code # 200 THEN "False"
    ELSE IF ~IsDict(response_data) THEN "AttributeError"
    ELSE IF ~Truthy(get(response_data, "status")) THEN "False"
    ELSE "True"

virtual_account_balance_request(hdrs, resp, d) ==
    IF isinstance_Response(hdrs)
    THEN Returned(PyKudaResponse(hdrs[2].status_code, hdrs,
                                 PyKudaResponseDefaultError))
    ELSE IF ~JsonParses(resp) THEN Raised("JSONDecodeError")
    ELSE LET response_data == json(resp)
             ok == virtual_account_balance_success(resp, response_data)
         IN  IF ok = "True"
             THEN IF BalanceError(response_data) # ""
                  THEN Raised(BalanceError(response_data))
                  ELSE Returned(PyKudaResponse(200, BalancePayload(response_data),
                                               PyKudaResponseDefaultError))
             ELSE IF ok = "False"
             THEN Returned(PyKudaResponse(resp.status_code, ResponseObj(resp), TRUE))
             ELSE Raised(ok)

main_account_balance_success(resp, response_data) ==
    IF resp.status_code # 200 THEN "False"
    ELSE IF ~IsDict(response_data) THEN "AttributeError"
    ELSE IF ~Truthy(get(response_data, "status")) THEN "False"
    ELSE "True"

main_account_balance_request(hdrs, resp, d) ==
    IF isinstance_Response(hdrs)
    THEN Returned(PyKudaResponse(hdrs[2].status_code, hdrs,
                                 PyKudaResponseDefaultError))
    ELSE IF ~JsonParses(resp) THEN Raised("JSONDecodeError")
    ELSE LET response_data == json(resp)
             ok == main_account_balance_success(resp, response_data)
         IN  IF ok = "True"
             THEN IF BalanceError(response_data) # ""
                  THEN Raised(BalanceError(response_data))
                  ELSE Returned(PyKudaResponse(200, BalancePayload(response_data),
                                               PyKudaResponseDefaultError))
             ELSE IF ok = "False"
             THEN Returned(PyKudaResponse(resp.status_code, ResponseObj(resp), TRUE))
             ELSE Raised(ok)

fund_virtual_account_success(resp, response_data) ==
    IF resp.status_code # 200 THEN "False"
    ELSE IF ~IsDict(response_data) THEN "AttributeError"
    ELSE IF ~Truthy(get(response_data, "status")) THEN "False"
    ELSE IF ~Truthy(get(response_data, "transactionReference")) THEN "False"
    ELSE "True"

fund_virtual_account_request(hdrs, resp, d) ==
    IF isinstance_Response(hdrs)
    THEN Returned(PyKudaResponse(hdrs[2].status_code, hdrs,
                                 PyKudaResponseDefaultError))
    ELSE IF ~JsonParses(resp) THEN Raised("JSONDecodeError")
    ELSE LET response_data == json(resp)
             ok == fund_virtual_account_success(resp, response_data)
         IN  IF ok = "True"
             THEN Returned(PyKudaResponse(200,
                      PyDict([reference |-> get(response_data, "transactionReference")]),
                      PyKudaResponseDefaultError))
             ELSE IF ok = "False"
             THEN Returned(PyKudaResponse(resp.status_code, ResponseObj(resp), TRUE))
             ELSE Raised(ok)

withdraw_from_virtual_account_success(resp, response_data) ==
    IF resp.status_code # 200 THEN "False"
    ELSE IF ~IsDict(response_data) THEN "AttributeError"
    ELSE IF ~Truthy(get(response_data, "status")) THEN "False"
    ELSE IF ~Truthy(get(response_data, "transactionReference")) THEN "False"
    ELSE "True"

withdraw_from_virtual_account_request(hdrs, resp, d) ==
    IF isinstance_Response(hdrs)
    THEN Returned(PyKudaResponse(hdrs[2].status_code, hdrs,
                                 PyKudaResponseDefaultError))
    ELSE IF ~JsonParses(resp) THEN Raised("JSONDecodeError")
    ELSE LET response_data == json(resp)
             ok == withdraw_from_virtual_account_success(resp, response_data)
         IN  IF ok = "True"
             THEN Returned(PyKudaResponse(200,
                      PyDict([reference |-> get(response_data, "transactionReference")]),
                      PyKudaResponseDefaultError))
             ELSE IF ok = "False"
             THEN Returned(PyKudaResponse(resp.status_code, ResponseObj(resp), TRUE))
             ELSE Raised(ok)

confirm_transfer_recipient_success(resp, response_data) ==
    IF resp.status_code # 200 THEN "False"
    ELSE IF ~IsDict(response_data) THEN "AttributeError"
    ELSE IF ~Truthy(get(response_data, "status")) THEN "False"
    ELSE IF ~Truthy(get(response_data, "data")) THEN "False"
    ELSE IF ~IsDict(get(response_data, "data")) THEN "AttributeError"
    ELSE IF ~Truthy(get(get(response_data, "data"), "beneficiaryAccountNumber")) THEN "False"
    ELSE IF ~IsDict(get(response_data, "data")) THEN "AttributeError"
    ELSE IF ~Truthy(get(get(response_data, "data"), "beneficiaryName")) THEN "False"
    ELSE "True"

\* The payload confirm_transfer_recipient_request builds from data and the
\* caller's tracking reference
BeneficiaryPayload(beneficiary_data, tracking_reference) ==
    PyDict([beneficiary_account_number |-> get(beneficiary_data, "beneficiaryAccountNumber"),
            beneficiary_name |-> get(beneficiary_data, "beneficiaryName"),
            beneficiary_code |-> get(beneficiary_data, "beneficiaryBankCode"),
            session_id |-> get(beneficiary_data, "sessionID"),
            sender_account |-> get(beneficiary_data, "senderAccountNumber"),
            transfer_charge |-> get(beneficiary_data, "transferCharge"),
            name_enquiry_id |-> get(beneficiary_data, "nameEnquiryID"),
            tracking_reference |-> tracking_reference])

confirm_transfer_recipient_request(hdrs, resp, d) ==
    IF isinstance_Response(hdrs)
    THEN Returned(PyKudaResponse(hdrs[2].status_code, hdrs,
                                 PyKudaResponseDefaultError))
    ELSE IF ~JsonParses(resp) THEN Raised("JSONDecodeError")
    ELSE LET response_data == json(resp)
             ok == confirm_transfer_recipient_success(resp, response_data)
         IN  IF ok = "True"
             THEN IF Subscript2Error(d, "Data", "SenderTrackingReference") # ""
                  THEN Raised(Subscript2Error(d, "Data", "SenderTrackingReference"))
                  ELSE Returned(PyKudaResponse(200,
                           BeneficiaryPayload(get(response_data, "data"),
                               Item(Item(d, "Data"), "SenderTrackingReference")),
                           PyKudaResponseDefaultError))
             ELSE IF ok = "False"
             THEN Returned(PyKudaResponse(resp.status_code, ResponseObj(resp), TRUE))
             ELSE Raised(ok)

send_funds_from_main_account_success(resp, response_data) ==
    IF resp.status_code # 200 THEN "False"
    ELSE IF ~IsDict(response_data) THEN "AttributeError"
    ELSE IF ~Truthy(get(response_data, "status")) THEN "False"
    ELSE IF ~Truthy(get(response_data, "transactionReference")) THEN "False"
    ELSE "True"

send_funds_from_main_account_request(hdrs, resp, d) ==
    IF isinstance_Response(hdrs)
    THEN Returned(PyKudaResponse(hdrs[2].status_code, hdrs,
                                 PyKudaResponseDefaultError))
    ELSE IF ~JsonParses(resp) THEN Raised("JSONDecodeError")
    ELSE LET response_data == json(resp)
             ok == send_funds_from_main_account_success(resp, response_data)
         IN  IF ok = "True"
             THEN Returned(PyKudaResponse(200,
                      PyDict([transaction_reference |-> get(response_data, "transactionReference"),
                              request_reference |-> get(response_data, "requestReference")]),
                      PyKudaResponseDefaultError))
             ELSE IF ok = "False"
             THEN Returned(PyKudaResponse(resp.status_code, ResponseObj(resp), TRUE))
             ELSE Raised(ok)

send_funds_from_virtual_account_success(resp, response_data) ==
    IF resp.status_code # 200 THEN "False"
    ELSE IF ~IsDict(response_data) THEN "AttributeError"
    ELSE IF ~Truthy(get(response_data, "status")) THEN "False"
    ELSE IF ~Truthy(get(response_data, "transactionReference")) THEN "False"
    ELSE "True"

send_funds_from_virtual_account_request(hdrs, resp, d) ==
    IF isinstance_Response(hdrs)
    THEN Returned(PyKudaResponse(hdrs[2].status_code, hdrs,
                                 PyKudaResponseDefaultError))
    ELSE IF ~JsonParses(resp) THEN Raised("JSONDecodeError")
    ELSE LET response_data == json(resp)
             ok == send_funds_from_virtual_account_success(resp, response_data)
         IN  IF ok = "True"
             THEN Returned(PyKudaResponse(200,
                      PyDict([transaction_reference |-> get(response_data, "transactionReference"),
                              request_reference |-> get(response_data, "requestReference")]),
                      PyKudaResponseDefaultError))
             ELSE IF ok = "False"
             THEN Returned(PyKudaResponse(resp.status_code, ResponseObj(resp), TRUE))
             ELSE Raised(ok)

billers_success(resp, response_data) ==
    IF resp.status_code # 200 THEN "False"
    ELSE IF ~IsDict(response_data) THEN "AttributeError"
    ELSE IF ~Truthy(get(response_data, "status")) THEN "False"
    ELSE IF ~Truthy(get(response_data, "data")) THEN "False"
    ELSE IF ~IsDict(get(response_data, "data")) THEN "AttributeError"
    ELSE IF ~Truthy(get(get(response_data, "data"), "billers")) THEN "False"
    ELSE "True"

billers_request(hdrs, resp, d) ==
    IF isinstance_Response(hdrs)
    THEN Returned(PyKudaResponse(hdrs[2].status_code, hdrs,
                                 PyKudaResponseDefaultError))
    ELSE IF ~JsonParses(resp) THEN Raised("JSONDecodeError")
    ELSE LET response_data == json(resp)
             ok == billers_success(resp, response_data)
         IN  IF ok = "True"
             THEN Returned(PyKudaResponse(200,
                      PyDict([billers |-> get(get(response_data, "data"), "billers")]),
                      PyKudaResponseDefaultError))
             ELSE IF ok = "False"
             THEN Returned(PyKudaResponse(resp.status_code, ResponseObj(resp), TRUE))
             ELSE Raised(ok)

verify_bill_customer_success(resp, response_data) ==
    IF resp.status_code # 200 THEN "False"
    ELSE IF ~IsDict(response_data) THEN "AttributeError"
    ELSE IF ~Truthy(get(response_data, "status")) THEN "False"
    ELSE IF ~Truthy(get(response_data, "data")) THEN "False"
    ELSE IF ~IsDict(get(response_data, "data")) THEN "AttributeError"
    ELSE IF ~Truthy(get(get(response_data, "data"), "customerName")) THEN "False"
    ELSE "True"

verify_bill_customer_request(hdrs, resp, d) ==
    IF isinstance_Response(hdrs)
    THEN Returned(PyKudaResponse(hdrs[2].status_code, hdrs,
                                 PyKudaResponseDefaultError))
    ELSE IF ~JsonParses(resp) THEN Raised("JSONDecodeError")
    ELSE LET response_data == json(resp)
             ok == verify_bill_customer_success(resp, response_data)
         IN  IF ok = "True"
             THEN Returned(PyKudaResponse(200,
                      PyDict([customerName |-> get(get(response_data, "data"), "customerName")]),
                      PyKudaResponseDefaultError))
             ELSE IF ok = "False"
             THEN Returned(PyKudaResponse(resp.status_code, ResponseObj(resp), TRUE))
             ELSE Raised(ok)

virtual_account_purchase_bill_success(resp, response_data) ==
    IF resp.status_code # 200 THEN "False"
    ELSE IF ~IsDict(response_data) THEN "AttributeError"
    ELSE IF ~Truthy(get(response_data, "status")) THEN "False"
    ELSE IF ~Truthy(get(response_data, "data")) THEN "False"
    ELSE IF ~IsDict(get(response_data, "data")) THEN "AttributeError"
    ELSE IF ~Truthy(get(get(response_data, "data"), "reference")) THEN "False"
    ELSE "True"

virtual_account_purchase_bill_request(hdrs, resp, d) ==
    IF isinstance_Response(hdrs)
    THEN Returned(PyKudaResponse(hdrs[2].status_code, hdrs,
                                 PyKudaResponseDefaultError))
    ELSE IF ~JsonParses(resp) THEN Raised("JSONDecodeError")
    ELSE LET response_data == json(resp)
             ok == virtual_account_purchase_bill_success(resp, response_data)
         IN  IF ok = "True"
             THEN Returned(PyKudaResponse(200,
                      PyDict([reference |-> get(get(response_data, "data"), "reference")]),
                      PyKudaResponseDefaultError))
             ELSE IF ok = "False"
             THEN Returned(PyKudaResponse(resp.status_code, ResponseObj(resp), TRUE))
             ELSE Raised(ok)

(* ------------------------------ dispatch ------------------------------ *)

Endpoints ==
    {"bank_list_request", "create_virtual_account_request",
     "virtual_account_balance_request", "main_account_balance_request",
     "fund_virtual_account_request", "withdraw_from_virtual_account_request",
     "confirm_transfer_recipient_request", "send_funds_from_main_account_request",
     "send_funds_from_virtual_account_request", "billers_request",
     "verify_bill_customer_request", "virtual_account_purchase_bill_request"}

\* The method named ep applied to its inputs
Method(ep, hdrs, resp, d) ==
    CASE ep = "bank_list_request" -> bank_list_request(hdrs, resp, d)
      [] ep = "create_virtual_account_request" ->
             create_virtual_account_request(hdrs, resp, d)
      [] ep = "virtual_account_balance_request" ->
             virtual_account_balance_request(hdrs, resp, d)
      [] ep = "main_account_balance_request" ->
             main_account_balance_request(hdrs, resp, d)
      [] ep = "fund_virtual_account_request" ->
             fund_virtual_account_request(hdrs, resp, d)
      [] ep = "withdraw_from_virtual_account_request" ->
             withdraw_from_virtual_account_request(hdrs, resp, d)
      [] ep = "confirm_transfer_recipient_request" ->
             confirm_transfer_recipient_request(hdrs, resp, d)
      [] ep = "send_funds_from_main_account_request" ->
             send_funds_from_main_account_request(hdrs, resp, d)
      [] ep = "send_funds_from_virtual_account_request" ->
             send_funds_from_virtual_account_request(hdrs, resp, d)
      [] ep = "billers_request" -> billers_request(hdrs, resp, d)
      [] ep = "verify_bill_customer_request" ->
             verify_bill_customer_request(hdrs, resp, d)
      [] ep = "virtual_account_purchase_bill_request" ->
             virtual_account_purchase_bill_request(hdrs, resp, d)

\* The success test of the method named ep
Success(ep, resp, response_data) ==
    CASE ep = "bank_list_request" -> bank_list_success(resp, response_data)
      [] ep = "create_virtual_account_request" ->
             create_virtual_account_success(resp, response_data)
      [] ep = "virtual_account_balance_request" ->
             virtual_account_balance_success(resp, response_data)
      [] ep = "main_account_balance_request" ->
             main_account_balance_success(resp, response_data)
      [] ep = "fund_virtual_account_request" ->
             fund_virtual_account_success(resp, response_data)
      [] ep = "withdraw_from_virtual_account_request" ->
             withdraw_from_virtual_account_success(resp, response_data)
      [] ep = "confirm_transfer_recipient_request" ->
             confirm_transfer_recipient_success(resp, response_data)
      [] ep = "send_funds_from_main_account_request" ->
             send_funds_from_main_account_success(resp, response_data)
      [] ep = "send_funds_from_virtual_account_request" ->
             send_funds_from_virtual_account_success(resp, response_data)
      [] ep = "billers_request" -> billers_success(resp, response_data)
      [] ep = "verify_bill_customer_request" ->
             verify_bill_customer_success(resp, response_data)
      [] ep = "virtual_account_purchase_bill_request" ->
             virtual_account_purchase_bill_success(resp, response_data)

(* ------------------------------- inputs ------------------------------- *)

\* All functions whose keys are a subset of keys, key k holding a value of
\* spec[k]
RECURSIVE FunctionsOver(_, _)
FunctionsOver(spec, keys) ==
    IF keys = {} THEN {<<>>}
    ELSE LET k == CHOOSE x \in keys : TRUE
             rest == FunctionsOver(spec, keys \ {k})
         IN  rest \cup {f @@ (k :> v) : f \in rest, v \in spec[k]}

\* All dicts over the keys of spec
DictsOver(spec) == {PyDict(f) : f \in FunctionsOver(spec, DOMAIN spec)}

TrackingRefs == {"TRK1", "TRK2"}

\* The caller's request mappings: any dict, with or without the Data object
\* and the tracking references the two echoing endpoints subscript
Requests ==
    {EmptyDict}
    \cup {PyDict([Data |-> dd]) :
            dd \in DictsOver([trackingReference |-> {PyStr(t) : t \in TrackingRefs},
                              SenderTrackingReference |-> {PyStr(t) : t \in TrackingRefs}])}

\* What generate_headers() returns: a header mapping, or the Response of
\* the failed token request
ValidHeaders == PyDict([Authorization |-> PyStr("Bearer token")])
AuthFailures ==
    {ResponseObj([status_code |-> c, body |-> <<"text">>]) : c \in {401, 500}}
HeaderValues == {ValidHeaders} \cup AuthFailures

TransportStatusCodes == {200, 400}
StatusValues == {PyBool(TRUE), PyBool(FALSE)}
BalanceValues == {PyInt(n) : n \in 0..MaxBalance}

\* The fields of the reply's "data" object each endpoint reads
DataSpec(ep) ==
    CASE ep = "bank_list_request" ->
             [banks |-> {PyList(<<>>), PyList(<<PyStr("Kuda")>>)}]
      [] ep = "create_virtual_account_request" ->
             [accountNumber |-> {PyStr(""), PyStr("1234567890")},
              trackingReference |-> {PyStr("TRK9")}]
      [] ep \in {"virtual_account_balance_request", "main_account_balance_request"} ->
             [ledgerBalance |-> BalanceValues,
              availableBalance |-> BalanceValues,
              withdrawableBalance |-> BalanceValues]
      [] ep = "confirm_transfer_recipient_request" ->
             [beneficiaryAccountNumber |-> {PyStr(""), PyStr("0123456789")},
              beneficiaryName |-> {PyStr(""), PyStr("Ada")},
              beneficiaryBankCode |-> {PyStr("999129")},
              sessionID |-> {PyStr("S1")},
              senderAccountNumber |-> {PyStr("2000000000")},
              transferCharge |-> {PyInt(10)},
              nameEnquiryID |-> {PyStr("N1")}]
      [] ep = "billers_request" ->
             [billers |-> {PyList(<<>>), PyList(<<PyStr("airtime")>>)}]
      [] ep = "verify_bill_customer_request" ->
             [customerName |-> {PyStr(""), PyStr("Ada")}]
      [] ep = "virtual_account_purchase_bill_request" ->
             [reference |-> {PyStr(""), PyStr("REF1")}]

TopLevelEndpoints ==
    {"fund_virtual_account_request", "withdraw_from_virtual_account_request",
     "send_funds_from_main_account_request",
     "send_funds_from_virtual_account_request"}

\* The JSON objects the endpoint may answer with; data may be absent,
\* null, an object, or a truthy value that is no object (a string, a list, a number)
ObjectsFor(ep) ==
    IF ep \in TopLevelEndpoints
    THEN DictsOver([status |-> StatusValues,
                    transactionReference |-> {PyStr(""), PyStr("TX1")},
                    requestReference |-> {PyStr("RQ1")}])
    ELSE DictsOver([status |-> StatusValues,
                    data |-> {PyNone, PyStr("x"), PyList(<<PyInt(1)>>), PyInt(5)}
                             \cup DictsOver(DataSpec(ep))])

\* JSON bodies that are no object
NonDictJson == {PyNone, PyList(<<>>), PyList(<<PyInt(1)>>)}

\* What requests.post() may return for the endpoint
ResponsesFor(ep) ==
    {[status_code |-> c, body |-> b] :
        c \in TransportStatusCodes,
        b \in {<<"text">>} \cup {<<"json", v>> : v \in NonDictJson \cup ObjectsFor(ep)}}

\* ResponsesFor, tabulated
Responses == [ep \in Endpoints |-> ResponsesFor(ep)]

NoResponse == [status_code |-> 0, body |-> <<"text">>]

(* ---------------------------- state machine --------------------------- *)

Init ==
    /\ pc = "idle"
    /\ endpoint = "bank_list_request"
    /\ data = EmptyDict
    /\ caller_data = EmptyDict
    /\ headers = PyNone
    /\ header_calls = 0
    /\ response = NoResponse
    /\ posted = <<>>
    /\ outcome = NoOutcome

\* The caller invokes method ep with request mapping d
Call(ep, d) ==
    /\ pc = "idle"
    /\ pc' = "called"
    /\ endpoint' = ep
    /\ data' = d
    /\ caller_data' = d
    /\ headers' = PyNone
    /\ header_calls' = 0
    /\ response' = NoResponse
    /\ posted' = <<>>
    /\ outcome' = NoOutcome

\* headers = self.generate_headers()
GenerateHeaders(h) ==
    /\ pc = "called"
    /\ pc' = "headers"
    /\ headers' = h
    /\ header_calls' = header_calls + 1
    /\ UNCHANGED <<endpoint, data, caller_data, response, posted, outcome>>

\* response = requests.post(REQUEST_URL, json=data, headers=headers, timeout=10)
Post(r) ==
    /\ pc = "headers"
    /\ ~isinstance_Response(headers)
    /\ pc' = "posted"
    /\ posted' = Append(posted, [json |-> data, headers |-> headers, timeout |-> 10])
    /\ response' = r
    /\ UNCHANGED <<endpoint, data, caller_data, headers, header_calls, outcome>>

\* requests.post() raises (timeout, connection error): not caught
PostFails ==
    /\ pc = "headers"
    /\ ~isinstance_Response(headers)
    /\ pc' = "raised"
    /\ posted' = Append(posted, [json |-> data, headers |-> headers, timeout |-> 10])
    /\ outcome' = Raised("RequestException")
    /\ UNCHANGED <<endpoint, data, caller_data, headers, header_calls, response>>

\* The rest of the method: the short circuit on Response headers, or
\* response.json(), the success test and the PyKudaResponse built from it
Complete ==
    /\ \/ pc = "posted"
       \/ pc = "headers" /\ isinstance_Response(headers)
    /\ outcome' = Method(endpoint, headers, response, data)
    /\ pc' = outcome'[1]
    /\ UNCHANGED <<endpoint, data, caller_data, headers, header_calls, response, posted>>

\* The caller takes the outcome; the next call starts from scratch
NextCall ==
    /\ pc \in {"returned", "raised"}
    /\ pc' = "idle"
    /\ UNCHANGED <<endpoint, data, caller_data, headers, header_calls, response,
                   posted, outcome>>

Next ==
    \/ \E ep \in Endpoints, d \in Requests : Call(ep, d)
    \/ \E h \in HeaderValues : GenerateHeaders(h)
    \/ \E r \in Responses[endpoint] : Post(r)
    \/ PostFails
    \/ Complete
    \/ NextCall

Spec == Init /\ [][Next]_vars

(* ------------------------------- claims ------------------------------- *)

\* The call has ended, by returning a result or by raising
Terminal == pc \in {"returned", "raised"}

\* The call ended after a POST whose reply parsed as JSON
PostedAndParsed ==
    /\ Terminal
    /\ headers = ValidHeaders
    /\ Len(posted) = 1
    /\ JsonParses(response)

BalanceEndpoints ==
    {"virtual_account_balance_request", "main_account_balance_request"}

EchoEndpoints ==
    {"create_virtual_account_request", "confirm_transfer_recipient_request"}

\* C1: when generate_headers() returns a Response, the method returns
\* without issuing any POST (and without raising), and the result's
\* status_code is that Response's status_code.
C1_AuthFailureShortCircuits ==
    headers \in AuthFailures =>
        /\ posted = <<>>
        /\ pc \notin {"posted", "raised"}
        /\ pc = "returned" => outcome[2].status_code = headers[2].status_code

C1_Witness ==
    /\ pc = "returned"
    /\ headers \in AuthFailures
    /\ outcome[2].status_code = 500

\* C2: when the headers are an error-carrying object, the result has
\* is_error = true and its payload is the failure object itself.
C2_AuthFailureIsError ==
    (pc = "returned" /\ headers \in AuthFailures) =>
        /\ outcome[2].error = TRUE
        /\ outcome[2].data = headers

\* C3: with valid headers and a reply whose HTTP status is not 200 and
\* whose body parses as JSON, the method returns an error result carrying
\* the transport status code and the raw Response; no payload is built.
C3_Non200IsError ==
    (PostedAndParsed /\ response.status_code # 200) =>
        /\ pc = "returned"
        /\ outcome[2].error = TRUE
        /\ outcome[2].status_code = response.status_code
        /\ outcome[2].data[1] = "Response"
        /\ outcome[2].data[2] = response

C3_Witness ==
    /\ pc = "returned"
    /\ headers = ValidHeaders
    /\ response.status_code = 400
    /\ JsonParses(response)
    /\ IsDict(json(response))
    /\ Truthy(get(json(response), "status"))
    /\ outcome[2].error = TRUE

\* The nested fields the endpoint needs are present and non-empty in the
\* reply object (a balance may be 0: it only has to be present)
RequiredFieldsPresent(ep, response_data) ==
    IF ep \in TopLevelEndpoints
    THEN Truthy(get(response_data, "transactionReference"))
    ELSE /\ IsDict(get(response_data, "data"))
         /\ LET d == get(response_data, "data")
                required ==
                    CASE ep = "bank_list_request" -> {"banks"}
                      [] ep = "create_virtual_account_request" -> {"accountNumber"}
                      [] ep \in BalanceEndpoints ->
                             {"ledgerBalance", "availableBalance", "withdrawableBalance"}
                      [] ep = "confirm_transfer_recipient_request" ->
                             {"beneficiaryAccountNumber", "beneficiaryName"}
                      [] ep = "billers_request" -> {"billers"}
                      [] ep = "verify_bill_customer_request" -> {"customerName"}
                      [] ep = "virtual_account_purchase_bill_request" -> {"reference"}
            IN  \A k \in required :
                    /\ k \in DOMAIN d[2]
                    /\ ep \notin BalanceEndpoints => Truthy(d[2][k])

\* C4: when the transport status is 200 but a nested field the endpoint
\* needs is missing or empty, the method returns an error result; it never
\* raises and never returns a success result.
C4_MissingFieldIsError ==
    ( /\ PostedAndParsed
      /\ response.status_code = 200
      /\ IsDict(json(response))
      /\ ~RequiredFieldsPresent(endpoint, json(response)) ) =>
        /\ pc = "returned"
        /\ outcome[2].error = TRUE

\* Every value of the extracted payload is there: no None in a mapping, no
\* empty list
FullyPopulated(payload) ==
    CASE payload[1] = "dict" -> \A k \in DOMAIN payload[2] : payload[2][k] # PyNone
      [] payload[1] = "list" -> Len(payload[2]) > 0
      [] OTHER -> FALSE

\* C5: every returned result is exactly one of (a) is_error = false with a
\* fully populated extracted payload, (b) is_error = true with the raw
\* Response attached.
C5_ExactlyOneShape ==
    pc = "returned" =>
        LET a == /\ outcome[2].error = FALSE
                 /\ FullyPopulated(outcome[2].data)
            b == /\ outcome[2].error = TRUE
                 /\ outcome[2].data[1] = "Response"
        IN  (a \/ b) /\ ~(a /\ b)

\* C6: a success result carries 201 from create_virtual_account_request
\* and 200 from each other endpoint, whatever the reply body holds.
C6_SuccessStatusFixed ==
    ( /\ pc = "returned"
      /\ headers = ValidHeaders
      /\ \/ outcome[2].error = FALSE
         \/ Success(endpoint, response, json(response)) = "True" ) =>
        outcome[2].status_code =
            IF endpoint = "create_virtual_account_request" THEN 201 ELSE 200

C6_Witness ==
    /\ pc = "returned"
    /\ endpoint = "create_virtual_account_request"
    /\ headers = ValidHeaders
    /\ response.status_code = 200
    /\ outcome[2].error = FALSE
    /\ outcome[2].status_code = 201

\* C7: the tracking_reference of a success payload of
\* create_virtual_account_request / confirm_transfer_recipient_request is
\* the one of the caller's request (Data.trackingReference, resp.
\* Data.SenderTrackingReference), whatever the reply holds, and the
\* request mapping is the caller's, unmodified.
C7_TrackingReferenceEchoed ==
    /\ data = caller_data
    /\ ( /\ pc = "returned"
         /\ endpoint \in EchoEndpoints
         /\ headers = ValidHeaders
         /\ outcome[2].error = FALSE ) =>
           LET key == IF endpoint = "create_virtual_account_request"
                      THEN "trackingReference" ELSE "SenderTrackingReference"
           IN  /\ outcome[2].data[1] = "dict"
               /\ Subscript2Error(caller_data, "Data", key) = ""
               /\ outcome[2].data[2]["tracking_reference"] =
                      caller_data[2]["Data"][2][key]

C7_Witness ==
    /\ pc = "returned"
    /\ endpoint = "create_virtual_account_request"
    /\ headers = ValidHeaders
    /\ outcome[2].error = FALSE
    /\ "trackingReference" \in DOMAIN json(response)[2]["data"][2]
    /\ outcome[2].data[2]["tracking_reference"] = PyStr("TRK1")

\* The reply is an object with a true status and a data object holding the
\* three balances
HoldsBalances(response_data) ==
    /\ IsDict(response_data)
    /\ Truthy(get(response_data, "status"))
    /\ IsDict(get(response_data, "data"))
    /\ {"ledgerBalance", "availableBalance", "withdrawableBalance"}
           \subseteq DOMAIN get(response_data, "data")[2]

\* C8: for both balance endpoints, a 200 reply with status true and data
\* holding the three balances gives a non-error result with status_code 200
\* and payload {ledger, available, withdrawable}, a balance of 0 included.
C8_BalancesMapped ==
    ( /\ PostedAndParsed
      /\ endpoint \in BalanceEndpoints
      /\ response.status_code = 200
      /\ HoldsBalances(json(response)) ) =>
        /\ pc = "returned"
        /\ outcome[2].error = FALSE
        /\ outcome[2].status_code = 200
        /\ outcome[2].data[1] = "dict"
        /\ outcome[2].data[2] =
             [ledger |-> json(response)[2]["data"][2]["ledgerBalance"],
              available |-> json(response)[2]["data"][2]["availableBalance"],
              withdrawable |-> json(response)[2]["data"][2]["withdrawableBalance"]]

C8_Witness ==
    /\ pc = "returned"
    /\ endpoint \in BalanceEndpoints
    /\ headers = ValidHeaders
    /\ response.status_code = 200
    /\ outcome[2].error = FALSE
    /\ outcome[2].data[2]["ledger"] = PyInt(0)

\* The field names of the remote API the endpoint reads from the reply
RawFields(ep) ==
    IF ep \in TopLevelEndpoints
    THEN {"status", "transactionReference", "requestReference"}
    ELSE {"status", "data"} \cup DOMAIN DataSpec(ep)

\* The reply satisfies the endpoint's success test
SuccessTestHolds ==
    /\ PostedAndParsed
    /\ Success(endpoint, response, json(response)) = "True"

\* C9: whenever the reply satisfies the endpoint's success test, the result
\* has is_error = false and its payload is a mapping none of whose keys is
\* a raw field name of the remote API, bank_list_request and
\* verify_bill_customer_request included.
C9_PayloadRenamedEverywhere ==
    SuccessTestHolds =>
        /\ pc = "returned"
        /\ outcome[2].error = FALSE
        /\ outcome[2].data[1] = "dict"
        /\ DOMAIN outcome[2].data[2] \cap RawFields(endpoint) = {}

\* C10: every invocation calls generate_headers() exactly once, then
\* issues exactly one POST when the headers are valid and none when they
\* are an error object, never a second one, and ends by returning a result
\* whenever the transport returned a JSON-object body.
C10_OneHeaderOnePostThenResult ==
    Terminal =>
        /\ header_calls = 1
        /\ Len(posted) = IF headers = ValidHeaders THEN 1 ELSE 0
        /\ (PostedAndParsed /\ IsDict(json(response))) => pc = "returned"

====
